---- MODULE Spec2Model ----
\* Model of the <web-tabs> element (src/lib/components/Tabs/index.js):
\* the activeTab state machine, its synchronisation with the rendered
\* tabs and panels, the roving-focus keyboard protocol and the lifecycle
\* hooks the LitElement host calls.
EXTENDS Integers, Sequences, FiniteSets, TLC

\* ---------------------------------------------------------------- bounds
MaxChildren == 3

\* Values the activetab attribute may carry in the page markup.
AttrValues == 0..MaxChildren

\* Indices a caller may pass to focusTab.
IndexInputs == (0 - 1)..MaxChildren

\* ------------------------------------------------------------ constants
KEYCODE_END == 35
KEYCODE_HOME == 36
KEYCODE_LEFT == 37
KEYCODE_RIGHT == 39
\* A key the handler has no case for (Down arrow, 40).
KEYCODE_DOWN == KEYCODE_RIGHT + 1

KeyCodes == {KEYCODE_END, KEYCODE_HOME, KEYCODE_LEFT, KEYCODE_RIGHT, KEYCODE_DOWN}

\* document.activeElement when no tab has focus; element sibling that
\* does not exist (null).
NoElement == 0

VARIABLES
  idSalt,              \* this.idSalt
  children,            \* light-DOM children: <<[question, label]>>
  activeTab,           \* this.activeTab
  overflow,            \* this.overflow
  prerenderedChildren, \* this.prerenderedChildren: [null, items]
  tabs,                \* this.tabs: [null, items]
  unresolved,          \* "unresolved" in this.classList
  domTabs,             \* rendered .web-tabs__tab buttons, document order
  domPanels,           \* rendered .web-tabs__panel divs, document order
  changedProperties,   \* LitElement's pending changed-property names
  hasUpdated,          \* first update has run
  updatesEnabled,      \* first connectedCallback has enabled updating
  connected,           \* element is attached to the document
  resizeListener,      \* window holds this.onResize for "resize"
  subscribed,          \* questions holding this.nextTab as listener
  focused,             \* document.activeElement: tab i, or NoElement
  last                 \* what the last dispatched call did

vars == <<idSalt, children, activeTab, overflow, prerenderedChildren, tabs,
          unresolved, domTabs, domPanels, changedProperties, hasUpdated,
          updatesEnabled, connected, resizeListener, subscribed, focused,
          last>>

\* ------------------------------------------------------------- helpers
\* JS arrays and NodeLists are 0-based; sequences are 1-based.
Has(list, index) == index >= 0 /\ index < Len(list)

At(list, index) == list[index + 1]

\* Array.from(tabs).indexOf(tab): 0-based position of the element, or -1.
IndexOf(list, el) ==
  IF \E k \in 1..Len(list) : list[k].i = el
    THEN (CHOOSE k \in 1..Len(list) : list[k].i = el) - 1
    ELSE 0 - 1

\* Number of tab/panel pairs in the document.
count == Len(domTabs)

\* LitElement property setter: a changed value records the property and
\* requests an update; an equal value does nothing.
RequestUpdate(cp, name, old, new) == IF old # new THEN cp \cup {name} ELSE cp

\* this.querySelectorAll("web-question"): one question per child that
\* holds one, identified by the child's position.
Questions == {k \in 1..Len(children) : children[k].question}

Call(o, a, r, c) ==
  [op |-> o, arg |-> a, raised |-> r, called |-> c,
   measurements |-> <<>>, defaultPrevented |-> FALSE]

\* ------------------------------------------------------------- JS values
\* What getAttribute returns and what a template interpolates: null, a
\* string or a number.
JsNull == [type |-> "null", text |-> "", num |-> 0]

JsString(s) == [type |-> "string", text |-> s, num |-> 0]

JsNumber(n) == [type |-> "number", text |-> "", num |-> n]

\* Template interpolation and string concatenation turn a value into text.
JsToString(v) ==
  CASE v.type = "string" -> v.text
    [] v.type = "number" -> ToString(v.num)
    [] OTHER -> "null"

\* data-label values a child may carry; JsNull is a child without the
\* attribute.
LabelInputs ==
  {JsNull, JsString(""), JsString("bare"), JsString("question"),
   JsString("sample"), JsString("Question"), JsString("Overview")}

\* Salts generateIdSalt may hand out, one per instance.
Salts == {"a", "a-1", "1"}

\* --------------------------------------------------------- construction
\* Children of the navigation model carry no data-label.
Children ==
  UNION {[1..k -> [question : BOOLEAN, label : {JsNull}]] : k \in 0..MaxChildren}

\* Children of the derivation model: any data-label, no question inside.
LabelledChildren ==
  UNION {[1..k -> [question : {FALSE}, label : LabelInputs]] : k \in 0..MaxChildren}

Constructed ==
  /\ activeTab = 0
  /\ overflow = FALSE
  /\ prerenderedChildren = [null |-> TRUE, items |-> <<>>]
  /\ tabs = [null |-> TRUE, items |-> <<>>]
  /\ unresolved \in BOOLEAN
  /\ domTabs = <<>>
  /\ domPanels = <<>>
  /\ changedProperties = {"activeTab", "overflow"}
  /\ hasUpdated = FALSE
  /\ updatesEnabled = FALSE
  /\ connected = FALSE
  /\ resizeListener = FALSE
  /\ subscribed = {}
  /\ focused = NoElement
  /\ last = Call("constructor", 0, FALSE, {})

Init ==
  /\ idSalt = "a"
  /\ children \in Children
  /\ Constructed

InitDerive ==
  /\ idSalt \in Salts
  /\ children \in LabelledChildren
  /\ Constructed

\* activeTab is a declared property backed by the activetab attribute:
\* markup may give it a value before the element is first attached.
attributeChangedCallback(value) ==
  /\ ~updatesEnabled
  /\ activeTab' = value
  /\ changedProperties' = RequestUpdate(changedProperties, "activeTab", activeTab, value)
  /\ last' = Call("attributeChangedCallback", value, FALSE, {})
  /\ UNCHANGED <<idSalt, children, overflow, prerenderedChildren, tabs, unresolved,
                 domTabs, domPanels, hasUpdated, updatesEnabled, connected,
                 resizeListener, subscribed, focused>>

\* --------------------------------------------------------------- render
\* id="web-tab-${idSalt}-${i}" and id="web-tab-${idSalt}-${i}-panel".
\* Variant: the salt is left out of the id.
tabIdNoSalt(salt, i) == "web-tab-" \o ToString(i)

tabId(salt, i) == "web-tab-" \o salt \o "-" \o ToString(i)

panelId(salt, i) == "web-tab-" \o salt \o "-" \o ToString(i) \o "-panel"

\* Variant: the "question" case has no break and falls into "sample".
resolveLabelFallThrough(i, tabLabel) ==
  CASE tabLabel \in {JsString("question"), JsString("sample")} ->
         JsString("Sample " \o ToString(i))
    [] tabLabel \in {JsString(""), JsNull, JsString("bare")} -> JsNumber(i)
    [] OTHER -> tabLabel

\* The switch of tabTemplate: the label shown for data-label tabLabel.
resolveLabel(i, tabLabel) ==
  CASE tabLabel = JsString("question") -> JsString("Question " \o ToString(i))
    [] tabLabel = JsString("sample") -> JsString("Sample " \o ToString(i))
    [] tabLabel \in {JsString(""), JsNull, JsString("bare")} -> JsNumber(i)
    [] OTHER -> tabLabel

tabTemplate(i, tabLabel) ==
  [i |-> i,
   selected |-> FALSE,
   id |-> tabId(idSalt, i),
   controls |-> panelId(idSalt, i),
   tabindex |-> "-1",
   dataLabel |-> "tab, " \o JsToString(resolveLabel(i, tabLabel)),
   label |-> resolveLabel(i, tabLabel)]

\* Variant: aria-labelledby is given the panel's own id.
panelTemplateSelfLabelled(i, child) ==
  [i |-> i,
   id |-> panelId(idSalt, i),
   labelledby |-> panelId(idSalt, i),
   hidden |-> TRUE,
   child |-> child]

panelTemplate(i, child) ==
  [i |-> i,
   id |-> panelId(idSalt, i),
   labelledby |-> tabId(idSalt, i),
   hidden |-> TRUE,
   child |-> child]

\* Variant: no cache guard; every render pushes onto the arrays.
renderAppend ==
  [prerenderedChildren |->
     [null |-> FALSE,
      items |-> prerenderedChildren.items
                  \o [k \in 1..Len(children) |-> panelTemplate(k, children[k])]],
   tabs |->
     [null |-> FALSE,
      items |-> tabs.items
                  \o [k \in 1..Len(children) |-> tabTemplate(k, children[k].label)]]]

\* render(): derives the templates once, behind the cache guard.
render ==
  IF prerenderedChildren.null
    THEN [prerenderedChildren |->
            [null |-> FALSE,
             items |-> [k \in 1..Len(children) |-> panelTemplate(k, children[k])]],
          tabs |->
            [null |-> FALSE,
             items |-> [k \in 1..Len(children) |-> tabTemplate(k, children[k].label)]]]
    ELSE [prerenderedChildren |-> prerenderedChildren, tabs |-> tabs]

\* ------------------------------------------------------ presentation sync
\* Variant: the loop that hides every panel is left out.
_changeTabNoHide(tabList, panels, active) ==
  IF ~Has(panels, active)
    THEN [tabs |-> tabList, panels |-> panels]
    ELSE [tabs |-> [k \in 1..Len(tabList) |->
                      IF k = active + 1
                        THEN [tabList[k] EXCEPT !.selected = TRUE, !.tabindex = "removed"]
                        ELSE [tabList[k] EXCEPT !.selected = FALSE, !.tabindex = "-1"]],
          panels |-> [k \in 1..Len(panels) |->
                      IF k = active + 1
                        THEN [panels[k] EXCEPT !.hidden = FALSE]
                        ELSE panels[k]]]

\* Variant: the loop that deselects every tab is left out.
_changeTabNoDeselect(tabList, panels, active) ==
  IF ~Has(panels, active)
    THEN [tabs |-> tabList, panels |-> panels]
    ELSE [tabs |-> [k \in 1..Len(tabList) |->
                      IF k = active + 1
                        THEN [tabList[k] EXCEPT !.selected = TRUE, !.tabindex = "removed"]
                        ELSE tabList[k]],
          panels |-> [k \in 1..Len(panels) |->
                      [panels[k] EXCEPT !.hidden = (k # active + 1)]]]

\* Variant: the missing-panel guard is left out. Without a tab at the
\* index the deselect loop runs and the next statement throws, before any
\* panel is touched.
_changeTabNoGuard(tabList, panels, active) ==
  IF ~Has(panels, active)
    THEN [tabs |-> [k \in 1..Len(tabList) |->
                      [tabList[k] EXCEPT !.selected = FALSE, !.tabindex = "-1"]],
          panels |-> panels]
    ELSE [tabs |-> [k \in 1..Len(tabList) |->
                      IF k = active + 1
                        THEN [tabList[k] EXCEPT !.selected = TRUE, !.tabindex = "removed"]
                        ELSE [tabList[k] EXCEPT !.selected = FALSE, !.tabindex = "-1"]],
          panels |-> [k \in 1..Len(panels) |->
                      [panels[k] EXCEPT !.hidden = (k # active + 1)]]]

_changeTab(tabList, panels, active) ==
  IF ~Has(panels, active)
    THEN [tabs |-> tabList, panels |-> panels]
    ELSE [tabs |-> [k \in 1..Len(tabList) |->
                      IF k = active + 1
                        THEN [tabList[k] EXCEPT !.selected = TRUE, !.tabindex = "removed"]
                        ELSE [tabList[k] EXCEPT !.selected = FALSE, !.tabindex = "-1"]],
          panels |-> [k \in 1..Len(panels) |->
                      [panels[k] EXCEPT !.hidden = (k # active + 1)]]]

\* Variant: the changed-property key is looked up under the attribute's
\* lower-case name, which changedProperties never holds.
updatedWrongKey(cp, tabList, panels, active) ==
  IF "activetab" \in cp
    THEN _changeTab(tabList, panels, active)
    ELSE [tabs |-> tabList, panels |-> panels]

updated(cp, tabList, panels, active) ==
  IF "activeTab" \in cp
    THEN _changeTab(tabList, panels, active)
    ELSE [tabs |-> tabList, panels |-> panels]

\* ------------------------------------------------------------- controller
\* Variant: the measurement is stored negated.
onResizeNegated(cp, measured) ==
  [overflow |-> ~measured,
   changedProperties |-> RequestUpdate(cp, "overflow", overflow, ~measured)]

onResize(cp, measured) ==
  [overflow |-> measured,
   changedProperties |-> RequestUpdate(cp, "overflow", overflow, measured)]

\* Variant: the activeTab reset is left out.
firstUpdatedNoReset(measured) ==
  LET resized == onResize({}, measured)
  IN [activeTab |-> activeTab,
      unresolved |-> FALSE,
      overflow |-> resized.overflow,
      changedProperties |-> resized.changedProperties,
      subscribed |-> subscribed \cup Questions]

firstUpdated(measured) ==
  LET resized == onResize(RequestUpdate({}, "activeTab", activeTab, 0), measured)
  IN [activeTab |-> 0,
      unresolved |-> FALSE,
      overflow |-> resized.overflow,
      changedProperties |-> resized.changedProperties,
      subscribed |-> subscribed \cup Questions]

\* Variant: the bound test admits index = length.
focusTabOffByOne(index) ==
  IF ~(index >= 0 /\ index <= Len(domTabs))
    THEN [raised |-> TRUE, activeTab |-> activeTab,
          changedProperties |-> changedProperties]
    ELSE [raised |-> FALSE, activeTab |-> index,
          changedProperties |->
            RequestUpdate(changedProperties, "activeTab", activeTab, index)]

\* Variant: the index is assigned without looking the tab up.
focusTabNoCheck(index) ==
  [raised |-> FALSE, activeTab |-> index,
   changedProperties |->
     RequestUpdate(changedProperties, "activeTab", activeTab, index)]

focusTab(index) ==
  IF ~Has(domTabs, index)
    THEN [raised |-> TRUE, activeTab |-> activeTab,
          changedProperties |-> changedProperties]
    ELSE [raised |-> FALSE, activeTab |-> index,
          changedProperties |->
            RequestUpdate(changedProperties, "activeTab", activeTab, index)]

previousTab == focusTab(activeTab - 1)

\* Variant: past the last tab the request wraps to the first.
nextTabWrap ==
  focusTab(IF activeTab + 1 >= Len(domTabs) THEN 0 ELSE activeTab + 1)

\* Variant: the request advances by two.
nextTabSkip == focusTab(activeTab + 2)

\* Variant: at the last tab the request is dropped instead of raising.
nextTabClamp ==
  IF activeTab + 1 >= Len(domTabs) /\ Len(domTabs) > 0
    THEN [raised |-> FALSE, activeTab |-> activeTab,
          changedProperties |-> changedProperties]
    ELSE focusTab(activeTab + 1)

nextTab == focusTab(activeTab + 1)

\* Variant: the tab's 1-based number is taken for its position.
onFocusOneBased(tab) ==
  [activeTab |-> tab,
   changedProperties |->
     RequestUpdate(changedProperties, "activeTab", activeTab, tab)]

\* Variant: the tab is scrolled into view but not activated.
onFocusNoActivate(tab) ==
  [activeTab |-> activeTab, changedProperties |-> changedProperties]

onFocus(tab) ==
  LET index == IndexOf(domTabs, tab)
  IN [activeTab |-> index,
      changedProperties |->
        RequestUpdate(changedProperties, "activeTab", activeTab, index)]

\* Siblings inside the tablist: the tab buttons, in document order.
nextElementSibling(item) == IF item < Len(domTabs) THEN item + 1 ELSE NoElement

previousElementSibling(item) == IF item > 1 THEN item - 1 ELSE NoElement

firstElementChild == IF Len(domTabs) > 0 THEN 1 ELSE NoElement

lastElementChild == Len(domTabs)

\* The focus* helpers return the element they call focus() on.
focusFirstItem(item) == firstElementChild

focusLastItem(item) == lastElementChild

\* Variant: without a next sibling the focus stays where it is.
focusNextItemNoWrap(item) ==
  IF nextElementSibling(item) # NoElement
    THEN nextElementSibling(item)
    ELSE item

focusNextItem(item) ==
  IF nextElementSibling(item) # NoElement
    THEN nextElementSibling(item)
    ELSE focusFirstItem(item)

focusPreviousItem(item) ==
  IF previousElementSibling(item) # NoElement
    THEN previousElementSibling(item)
    ELSE focusLastItem(item)

\* onKeydown(e): the element focus() is called on, and whether
\* preventDefault() was called.
onKeydown(keyCode) ==
  CASE keyCode = KEYCODE_RIGHT ->
         [target |-> focusNextItem(focused), defaultPrevented |-> TRUE]
    [] keyCode = KEYCODE_LEFT ->
         [target |-> focusPreviousItem(focused), defaultPrevented |-> TRUE]
    [] keyCode = KEYCODE_HOME ->
         [target |-> focusFirstItem(focused), defaultPrevented |-> TRUE]
    [] keyCode = KEYCODE_END ->
         [target |-> focusLastItem(focused), defaultPrevented |-> TRUE]
    [] OTHER ->
         [target |-> focused, defaultPrevented |-> FALSE]

\* -------------------------------------------------------------- lifecycle
connectedCallback ==
  /\ ~connected
  /\ connected' = TRUE
  /\ updatesEnabled' = TRUE
  /\ resizeListener' = TRUE
  /\ last' = Call("connectedCallback", 0, FALSE, {})
  /\ UNCHANGED <<idSalt, children, activeTab, overflow, prerenderedChildren, tabs,
                 unresolved, domTabs, domPanels, changedProperties,
                 hasUpdated, subscribed, focused>>

\* Variant: removeEventListener is handed a listener the window never got
\* (a fresh bind), so the registered one stays.
disconnectedCallbackKeepListener ==
  /\ connected
  /\ connected' = FALSE
  /\ resizeListener' = resizeListener
  /\ last' = Call("disconnectedCallback", 0, FALSE, {})
  /\ UNCHANGED <<idSalt, children, activeTab, overflow, prerenderedChildren, tabs,
                 unresolved, domTabs, domPanels, changedProperties,
                 hasUpdated, updatesEnabled, subscribed, focused>>

disconnectedCallback ==
  /\ connected
  /\ connected' = FALSE
  /\ resizeListener' = FALSE
  /\ last' = Call("disconnectedCallback", 0, FALSE, {})
  /\ UNCHANGED <<idSalt, children, activeTab, overflow, prerenderedChildren, tabs,
                 unresolved, domTabs, domPanels, changedProperties,
                 hasUpdated, updatesEnabled, subscribed, focused>>

\* The host's update cycle, run once updating is enabled and a property
\* change is pending: render, then firstUpdated on the first cycle only,
\* then updated with the properties that were pending when it started.
\* The first render commits the templates to the document; later renders
\* find every template value unchanged and write nothing.
performUpdate ==
  /\ updatesEnabled
  /\ changedProperties # {}
  /\ \E measured \in BOOLEAN :
       LET cp == changedProperties
           rendered == render
           first == ~hasUpdated
           committed == IF first
                          THEN [tabs |-> rendered.tabs.items,
                                panels |-> rendered.prerenderedChildren.items]
                          ELSE [tabs |-> domTabs, panels |-> domPanels]
           mounted == IF first
                        THEN firstUpdated(measured)
                        ELSE [activeTab |-> activeTab,
                              unresolved |-> unresolved,
                              overflow |-> overflow,
                              changedProperties |-> {},
                              subscribed |-> subscribed]
           synced == updated(cp, committed.tabs, committed.panels, mounted.activeTab)
       IN /\ first \/ measured = overflow
          /\ prerenderedChildren' = rendered.prerenderedChildren
          /\ tabs' = rendered.tabs
          /\ hasUpdated' = TRUE
          /\ activeTab' = mounted.activeTab
          /\ unresolved' = mounted.unresolved
          /\ overflow' = mounted.overflow
          /\ changedProperties' = mounted.changedProperties
          /\ subscribed' = mounted.subscribed
          /\ domTabs' = synced.tabs
          /\ domPanels' = synced.panels
          /\ last' = [op |-> "performUpdate", arg |-> 0, raised |-> FALSE,
                      called |-> {"render", "updated"}
                                 \cup (IF first THEN {"firstUpdated", "onResize"} ELSE {})
                                 \cup (IF "activeTab" \in cp THEN {"_changeTab"} ELSE {}),
                      measurements |-> IF first THEN <<measured>> ELSE <<>>,
                      defaultPrevented |-> FALSE]
  /\ UNCHANGED <<idSalt, children, updatesEnabled, connected, resizeListener, focused>>

\* ---------------------------------------------------------- public calls
FocusTabCall(index) ==
  LET done == focusTab(index)
  IN /\ activeTab' = done.activeTab
     /\ changedProperties' = done.changedProperties
     /\ last' = Call("focusTab", index, done.raised, {"focusTab"})
     /\ UNCHANGED <<idSalt, children, overflow, prerenderedChildren, tabs, unresolved,
                    domTabs, domPanels, hasUpdated, updatesEnabled, connected,
                    resizeListener, subscribed, focused>>

PreviousTabCall ==
  LET done == previousTab
  IN /\ activeTab' = done.activeTab
     /\ changedProperties' = done.changedProperties
     /\ last' = Call("previousTab", 0, done.raised, {"previousTab", "focusTab"})
     /\ UNCHANGED <<idSalt, children, overflow, prerenderedChildren, tabs, unresolved,
                    domTabs, domPanels, hasUpdated, updatesEnabled, connected,
                    resizeListener, subscribed, focused>>

NextTabCall ==
  LET done == nextTab
  IN /\ activeTab' = done.activeTab
     /\ changedProperties' = done.changedProperties
     /\ last' = Call("nextTab", 0, done.raised, {"nextTab", "focusTab"})
     /\ UNCHANGED <<idSalt, children, overflow, prerenderedChildren, tabs, unresolved,
                    domTabs, domPanels, hasUpdated, updatesEnabled, connected,
                    resizeListener, subscribed, focused>>

\* ------------------------------------------------------------------ events
\* A subscribed question dispatches "request-nav-to-next".
RequestNavToNext(question) ==
  /\ question \in subscribed
  /\ LET done == nextTab
     IN /\ activeTab' = done.activeTab
        /\ changedProperties' = done.changedProperties
        /\ last' = Call("request-nav-to-next", question, done.raised,
                        {"nextTab", "focusTab"})
  /\ UNCHANGED <<idSalt, children, overflow, prerenderedChildren, tabs, unresolved,
                 domTabs, domPanels, hasUpdated, updatesEnabled, connected,
                 resizeListener, subscribed, focused>>

\* A tab button that did not have focus receives it (pointer, Tab key or
\* focus()): its focus listener runs onFocus.
FocusEvent(tab) ==
  /\ tab \in 1..Len(domTabs)
  /\ tab # focused
  /\ focused' = tab
  /\ LET done == onFocus(tab)
     IN /\ activeTab' = done.activeTab
        /\ changedProperties' = done.changedProperties
  /\ last' = Call("focus", tab, FALSE, {"onFocus"})
  /\ UNCHANGED <<idSalt, children, overflow, prerenderedChildren, tabs, unresolved,
                 domTabs, domPanels, hasUpdated, updatesEnabled, connected,
                 resizeListener, subscribed>>

\* A key goes down on the focused tab button. focus() on the element
\* that already has focus fires no focus event.
KeydownEvent(keyCode) ==
  /\ focused # NoElement
  /\ LET key == onKeydown(keyCode)
         moved == key.target # focused
         done == IF moved
                   THEN onFocus(key.target)
                   ELSE [activeTab |-> activeTab,
                         changedProperties |-> changedProperties]
     IN /\ focused' = key.target
        /\ activeTab' = done.activeTab
        /\ changedProperties' = done.changedProperties
        /\ last' = [op |-> "keydown", arg |-> keyCode, raised |-> FALSE,
                    called |-> {"onKeydown"} \cup (IF moved THEN {"onFocus"} ELSE {}),
                    measurements |-> <<>>,
                    defaultPrevented |-> key.defaultPrevented]
  /\ UNCHANGED <<idSalt, children, overflow, prerenderedChildren, tabs, unresolved,
                 domTabs, domPanels, hasUpdated, updatesEnabled, connected,
                 resizeListener, subscribed>>

\* The window dispatches "resize" to the registered listener. The first
\* update runs in the microtask after attachment, before any resize event.
ResizeEvent ==
  /\ resizeListener
  /\ hasUpdated
  /\ \E measured \in BOOLEAN :
       LET done == onResize(changedProperties, measured)
       IN /\ overflow' = done.overflow
          /\ changedProperties' = done.changedProperties
          /\ last' = [op |-> "resize", arg |-> 0, raised |-> FALSE,
                      called |-> {"onResize"},
                      measurements |-> <<measured>>,
                      defaultPrevented |-> FALSE]
  /\ UNCHANGED <<idSalt, children, activeTab, prerenderedChildren, tabs, unresolved,
                 domTabs, domPanels, hasUpdated, updatesEnabled, connected,
                 resizeListener, subscribed, focused>>

Next ==
  \/ \E value \in AttrValues : attributeChangedCallback(value)
  \/ connectedCallback
  \/ disconnectedCallback
  \/ performUpdate
  \/ \E index \in IndexInputs : FocusTabCall(index)
  \/ PreviousTabCall
  \/ NextTabCall
  \/ \E question \in 1..MaxChildren : RequestNavToNext(question)
  \/ \E tab \in 1..MaxChildren : FocusEvent(tab)
  \/ \E keyCode \in KeyCodes : KeydownEvent(keyCode)
  \/ ResizeEvent

Spec == Init /\ [][Next]_vars

\* Navigation scenario: attach, let the host update, call nextTab().
NextNav ==
  \/ connectedCallback
  \/ performUpdate
  \/ NextTabCall

SpecNav == Init /\ [][NextNav]_vars

\* Derivation scenario: children with any data-label and any salt; attach
\* and let the host render.
NextDerive ==
  \/ connectedCallback
  \/ performUpdate

SpecDerive == InitDerive /\ [][NextDerive]_vars

\* ------------------------------------------------------------ observations
\* 0-based positions of the panels shown, the tabs selected and the tabs
\* reachable with the Tab key.
VisibleIn(panels) == {k \in 0..(Len(panels) - 1) : ~At(panels, k).hidden}

SelectedIn(tabList) == {k \in 0..(Len(tabList) - 1) : At(tabList, k).selected}

FocusableIn(tabList) == {k \in 0..(Len(tabList) - 1) : At(tabList, k).tabindex # "-1"}

Visible == VisibleIn(domPanels)

Selected == SelectedIn(domTabs)

Focusable == FocusableIn(domTabs)

ArrowKeys == {KEYCODE_END, KEYCODE_HOME, KEYCODE_LEFT, KEYCODE_RIGHT}

TypeOK ==
  /\ activeTab \in Int
  /\ overflow \in BOOLEAN
  /\ Len(domTabs) = Len(domPanels)
  /\ focused \in 0..Len(domTabs)

\* ------------------------------------------------------------------ claims

\* C1: for every activeTab in [0, count-1], once _changeTab has run exactly
\* one panel is shown and exactly one tab is selected, both at activeTab,
\* and that tab is the only one without tabindex -1. Checked on the update
\* that ran _changeTab and, for every valid index, on the result of
\* _changeTab applied to the rendered tabs and panels of every state.
C1_SyncShowsActive ==
  /\ \A a \in 0..(count - 1) :
       LET synced == _changeTab(domTabs, domPanels, a)
       IN /\ VisibleIn(synced.panels) = {a}
          /\ SelectedIn(synced.tabs) = {a}
          /\ FocusableIn(synced.tabs) = {a}
  /\ ("_changeTab" \in last.called /\ Has(domPanels, activeTab))
       => /\ Visible = {activeTab}
          /\ Selected = {activeTab}
          /\ Focusable = {activeTab}

C1_Witness ==
  /\ "_changeTab" \in last.called
  /\ count >= 3
  /\ activeTab = 1
  /\ Visible = {1}
  /\ Selected = {1}

\* C2: focusTab(i) with i outside [0, count-1] raises RangeError and leaves
\* activeTab as it was; with i inside the range it raises nothing and sets
\* activeTab to i.
C2_FocusTabRange ==
  [][last'.op = "focusTab" =>
       IF last'.arg \in 0..(count - 1)
         THEN ~last'.raised /\ activeTab' = last'.arg
         ELSE last'.raised /\ activeTab' = activeTab]_vars

C2_Witness ==
  /\ last.op = "focusTab"
  /\ last.raised
  /\ count >= 2
  /\ last.arg = count
  /\ activeTab = count - 1

\* C3: previousTab at position 0 and nextTab at position count-1 raise
\* RangeError and leave activeTab as it was; at every other position they
\* move activeTab by exactly -1 and +1.
C3_NoClampNoWrap ==
  [][/\ (last'.op = "previousTab" /\ Has(domTabs, activeTab)) =>
          IF activeTab = 0
            THEN last'.raised /\ activeTab' = activeTab
            ELSE ~last'.raised /\ activeTab' = activeTab - 1
     /\ (last'.op = "nextTab" /\ Has(domTabs, activeTab)) =>
          IF activeTab = count - 1
            THEN last'.raised /\ activeTab' = activeTab
            ELSE ~last'.raised /\ activeTab' = activeTab + 1]_vars

C3_Witness ==
  /\ last.op = "nextTab"
  /\ last.raised
  /\ count >= 2
  /\ activeTab = count - 1

\* C4 as stated: after mount, in every state between two handlers the
\* panel shown and the tab selected are the ones at activeTab.
C4_SyncBeforeReturn ==
  (hasUpdated /\ count >= 1) => (Visible = {activeTab} /\ Selected = {activeTab})

\* C4 amended: a change of activeTab leaves an update pending, and in every
\* state after mount with no activeTab update pending the panel shown and
\* the tab selected are the ones at activeTab.
C4_SyncWhenNoUpdatePending ==
  /\ [](("activeTab" \notin changedProperties /\ hasUpdated /\ count >= 1)
          => (Visible = {activeTab} /\ Selected = {activeTab}))
  /\ [][activeTab' # activeTab => "activeTab" \in changedProperties']_vars

C4_Witness ==
  /\ last.op = "performUpdate"
  /\ "_changeTab" \in last.called
  /\ "activeTab" \notin changedProperties
  /\ count >= 2
  /\ activeTab >= 1
  /\ Visible = {activeTab}

\* C5 as stated: in every state, for every number of children, activeTab
\* lies in [0, count-1].
C5_AlwaysInRange == activeTab \in 0..(Len(children) - 1)

\* C5 amended: after mount activeTab lies in [0, count-1] when there is at
\* least one tab/panel pair and is 0 when there is none; before mount it is
\* 0 or the value the activetab attribute gave.
C5_InRangeAfterMount ==
  /\ hasUpdated => IF count >= 1 THEN activeTab \in 0..(count - 1) ELSE activeTab = 0
  /\ ~hasUpdated => activeTab \in AttrValues

C5_Witness ==
  /\ hasUpdated
  /\ last.op = "focus"
  /\ count >= 2
  /\ activeTab = count - 1

\* C6 as stated, for the handlers that run after mount: every step that
\* changes activeTab is a focusTab call that passed its validation.
C6_OnlyFocusTab ==
  [][(hasUpdated /\ activeTab' # activeTab)
       => ("focusTab" \in last'.called /\ ~last'.raised)]_vars

\* C6 amended: a step changes activeTab only as a focusTab call that found
\* a tab at the index (direct, or through previousTab, nextTab or a nested
\* signal), as onFocus assigning the position of the tab that received focus,
\* as firstUpdated assigning 0, or as the activetab attribute before mount;
\* a keydown changes it only through onFocus and a resize never does.
C6_Writers ==
  [][activeTab' # activeTab =>
       \/ /\ "focusTab" \in last'.called
          /\ ~last'.raised
          /\ Has(domTabs, activeTab')
       \/ /\ "onFocus" \in last'.called
          /\ focused' # focused
          /\ activeTab' = focused' - 1
       \/ /\ "firstUpdated" \in last'.called
          /\ activeTab' = 0
       \/ /\ last'.op = "attributeChangedCallback"
          /\ ~hasUpdated]_vars

C6_Witness ==
  /\ last.op = "focus"
  /\ "onFocus" \in last.called
  /\ "focusTab" \notin last.called
  /\ "activeTab" \in changedProperties
  /\ activeTab = focused - 1
  /\ activeTab >= 1

\* C7: Right moves focus to the next tab and from the last to the first;
\* Left moves it to the previous tab and from the first to the last; Home
\* moves it to the first and End to the last tab; the four keys suppress
\* the default action; any other key moves nothing.
C7_RovingFocus ==
  [][last'.op = "keydown" =>
       /\ last'.arg = KEYCODE_RIGHT =>
            focused' = IF focused = count THEN 1 ELSE focused + 1
       /\ last'.arg = KEYCODE_LEFT =>
            focused' = IF focused = 1 THEN count ELSE focused - 1
       /\ last'.arg = KEYCODE_HOME => focused' = 1
       /\ last'.arg = KEYCODE_END => focused' = count
       /\ last'.arg \in ArrowKeys => last'.defaultPrevented
       /\ last'.arg \notin ArrowKeys =>
            /\ focused' = focused
            /\ activeTab' = activeTab
            /\ ~last'.defaultPrevented]_vars

C7_Witness ==
  /\ last.op = "keydown"
  /\ last.arg = KEYCODE_RIGHT
  /\ last.defaultPrevented
  /\ count >= 3
  /\ focused = 1

\* C8: a keydown changes activeTab only when focus moved, through onFocus;
\* after onFocus activeTab is the 0-based position of the tab that received
\* focus, whatever it was before; and the update that follows shows that
\* tab's panel and selects that tab.
C8_FocusActivates ==
  [][/\ last'.op = "keydown" =>
          IF focused' = focused
            THEN activeTab' = activeTab /\ "onFocus" \notin last'.called
            ELSE "onFocus" \in last'.called /\ activeTab' = focused' - 1
     /\ last'.op = "focus" =>
          ("onFocus" \in last'.called /\ activeTab' = focused' - 1)
     /\ (/\ last'.op = "performUpdate"
         /\ hasUpdated
         /\ "activeTab" \in changedProperties
         /\ focused # NoElement
         /\ activeTab = focused - 1) =>
          (Visible' = {focused - 1} /\ Selected' = {focused - 1})]_vars

C8_Witness ==
  /\ last.op = "keydown"
  /\ last.arg = KEYCODE_LEFT
  /\ "onFocus" \in last.called
  /\ "activeTab" \in changedProperties
  /\ count >= 3
  /\ focused = count
  /\ activeTab = count - 1

\* C9 as stated: after mount the first panel is the only one shown; the
\* panel shown advances one at a time, never skipping one; nextTab() at the
\* last position raises and the last panel stays shown.
C9_NoSkip ==
  [][/\ ("firstUpdated" \in last'.called /\ count' >= 1) => Visible' = {0}
     /\ (hasUpdated /\ count >= 1) =>
          \E v \in 0..(count - 1) :
            Visible = {v} /\ (Visible' = {v} \/ Visible' = {v + 1})
     /\ (last'.op = "nextTab" /\ hasUpdated /\ activeTab = count - 1) =>
          (last'.raised /\ Visible' = Visible)]_vars

\* C9 amended: after mount the first panel is the only one shown; each
\* nextTab() below the last position adds one to activeTab and leaves the
\* panels alone; the update that follows shows exactly the panel at
\* activeTab; nextTab() at the last position raises and leaves activeTab
\* and the panel shown as they were.
C9_NavigateForward ==
  [][/\ ("firstUpdated" \in last'.called /\ count' >= 1) => Visible' = {0}
     /\ (last'.op = "nextTab" /\ hasUpdated) =>
          /\ IF activeTab + 1 <= count - 1
               THEN ~last'.raised /\ activeTab' = activeTab + 1
               ELSE last'.raised /\ activeTab' = activeTab
          /\ Visible' = Visible
     /\ (last'.op = "performUpdate" /\ count' >= 1) => Visible' = {activeTab'}]_vars

C9_Witness ==
  /\ last.op = "nextTab"
  /\ last.raised
  /\ hasUpdated
  /\ count = 3
  /\ activeTab = 2
  /\ Visible = {2}

\* C10: when firstUpdated has completed, whatever activeTab was before,
\* activeTab is 0, the unresolved class is gone, overflow holds the result
\* of the one overflow measurement made, and every question present at
\* first render holds the nextTab listener.
C10_Mounted ==
  "firstUpdated" \in last.called =>
    /\ activeTab = 0
    /\ ~unresolved
    /\ Len(last.measurements) = 1
    /\ overflow = last.measurements[1]
    /\ \A q \in Questions : q \in subscribed

C10_Witness ==
  /\ "firstUpdated" \in last.called
  /\ "activeTab" \in changedProperties
  /\ activeTab = 0
  /\ overflow
  /\ Cardinality(Questions) >= 2
  /\ subscribed = Questions

\* C11: the window holds the instance's resize listener exactly while the
\* instance is attached, across any sequence of attach and detach, and the
\* resize handler runs only while it is attached.
C11_ResizeListenerScoped ==
  /\ [](resizeListener <=> connected)
  /\ [][last'.op = "resize" => (connected /\ resizeListener)]_vars
  /\ [][(~connected /\ ~connected' /\ hasUpdated) => overflow' = overflow]_vars

C11_Witness ==
  /\ last.op = "disconnectedCallback"
  /\ hasUpdated
  /\ overflow
  /\ ~connected
  /\ ~resizeListener

\* C12 as stated: detaching the instance releases the nested-signal
\* subscriptions, so that no question holds the nextTab listener afterwards
\* and a navigate-to-next signal sent while detached neither changes
\* activeTab nor raises.
C12_ReleasedOnDetach ==
  [][/\ last'.op = "disconnectedCallback" => subscribed' = {}
     /\ (last'.op = "request-nav-to-next" /\ ~connected) =>
          (activeTab' = activeTab /\ ~last'.raised)]_vars

\* C13: a navigate-to-next signal from any subscribed question adds exactly
\* one to activeTab, whichever panel holds the question; when activeTab is
\* count-1 it raises RangeError and leaves activeTab as it was.
C13_SignalForwarded ==
  /\ [](hasUpdated => subscribed = Questions)
  /\ [][last'.op = "request-nav-to-next" =>
          /\ last'.arg \in Questions
          /\ "nextTab" \in last'.called
          /\ IF activeTab = count - 1
               THEN last'.raised /\ activeTab' = activeTab
               ELSE ~last'.raised /\ activeTab' = activeTab + 1]_vars

C13_Witness ==
  /\ last.op = "request-nav-to-next"
  /\ ~last.raised
  /\ last.arg = 1
  /\ count >= 3
  /\ activeTab = 2

\* C14: the tab and panel sequences are computed by the first render only;
\* every later render leaves both as they are, so n children give n tabs
\* and n panels, in the cache and in the document, for n = 0 as well.
C14_DeriveOnce ==
  /\ [](~tabs.null =>
          /\ ~prerenderedChildren.null
          /\ Len(tabs.items) = Len(children)
          /\ Len(prerenderedChildren.items) = Len(children))
  /\ [](hasUpdated =>
          (Len(domTabs) = Len(children) /\ Len(domPanels) = Len(children)))
  /\ [][~tabs.null =>
          (tabs' = tabs /\ prerenderedChildren' = prerenderedChildren)]_vars

C14_Witness ==
  /\ last.op = "performUpdate"
  /\ "render" \in last.called
  /\ "firstUpdated" \notin last.called
  /\ Len(children) = 3
  /\ Len(tabs.items) = 3
  /\ Len(domPanels) = 3

\* C15: for every child at 0-based position k there is exactly one tab and
\* exactly one panel numbered k+1, both at position k; the tab's
\* aria-controls is that panel's id and the panel's aria-labelledby is that
\* tab's id; the panel holds that child; and the panel shown is the one the
\* selected tab controls.
C15_Paired ==
  hasUpdated =>
    /\ \A k \in 0..(Len(children) - 1) :
         /\ Cardinality({p \in 1..Len(domTabs) : domTabs[p].i = k + 1}) = 1
         /\ Cardinality({p \in 1..Len(domPanels) : domPanels[p].i = k + 1}) = 1
         /\ At(domTabs, k).i = k + 1
         /\ At(domPanels, k).i = k + 1
         /\ At(domTabs, k).controls = At(domPanels, k).id
         /\ At(domPanels, k).labelledby = At(domTabs, k).id
         /\ At(domPanels, k).child = children[k + 1]
    /\ \A t \in Selected : \A v \in Visible :
         /\ At(domTabs, t).controls = At(domPanels, v).id
         /\ At(domPanels, v).labelledby = At(domTabs, t).id

C15_Witness ==
  /\ hasUpdated
  /\ Len(children) = 3
  /\ activeTab = 2
  /\ Selected = {2}
  /\ Visible = {2}
  /\ At(domTabs, 2).controls = At(domPanels, 2).id

\* Tab numbers another instance on the page may use.
OtherIndices == 1..(MaxChildren + 9)

\* C16: with a salt of its own, every tab id and panel id of the instance
\* differs from every tab id and panel id of an instance with another salt,
\* and the ids within the instance are pairwise distinct.
C16_IdsUnique ==
  hasUpdated =>
    LET mine == {domTabs[k].id : k \in 1..Len(domTabs)}
                  \cup {domPanels[k].id : k \in 1..Len(domPanels)}
    IN /\ Cardinality(mine) = 2 * Len(children)
       /\ \A other \in Salts \ {idSalt} : \A j \in OtherIndices :
            /\ tabId(other, j) \notin mine
            /\ panelId(other, j) \notin mine

C16_Witness ==
  /\ hasUpdated
  /\ idSalt = "a-1"
  /\ Len(children) = 3
  /\ At(domTabs, 1).id = "web-tab-a-1-2"
  /\ At(domPanels, 1).id = "web-tab-a-1-2-panel"

\* The label the policy prescribes for data-label v on the tab numbered i.
LabelOK(i, v, shown) ==
  /\ v = JsString("question") => shown = JsString("Question " \o ToString(i))
  /\ v = JsString("sample") => shown = JsString("Sample " \o ToString(i))
  /\ v = JsString("") => shown = JsNumber(i)
  /\ v = JsNull => shown = JsNumber(i)
  /\ v = JsString("bare") => shown = JsNumber(i)
  /\ (v.type = "string" /\ v.text \notin {"question", "sample", "", "bare"})
       => shown = v

\* C17: the label is a function of the declared label and the 1-based
\* number alone: "question" gives "Question i", "sample" gives "Sample i",
\* the empty string, null and "bare" give the number i, and any other
\* string is kept as it is. Checked on every rendered tab and on every
\* declared label and number.
C17_LabelResolution ==
  /\ \A v \in LabelInputs : \A i \in 1..MaxChildren :
       LabelOK(i, v, resolveLabel(i, v))
  /\ hasUpdated =>
       \A k \in 1..Len(domTabs) :
         /\ LabelOK(k, children[k].label, domTabs[k].label)
         /\ domTabs[k].dataLabel = "tab, " \o JsToString(domTabs[k].label)

C17_Witness ==
  /\ hasUpdated
  /\ Len(children) = 3
  /\ children[1].label = JsString("question")
  /\ children[2].label = JsString("")
  /\ children[3].label = JsString("Overview")
  /\ domTabs[1].label = JsString("Question 1")
  /\ domTabs[2].label = JsNumber(2)
  /\ domTabs[3].label = JsString("Overview")

\* Steps that ask for another tab to become active.
ActivationRequests ==
  {"focusTab", "previousTab", "nextTab", "focus", "keydown", "request-nav-to-next"}

\* C18: activation requests run one at a time: each leaves the document
\* alone, a request that raises leaves activeTab and the pending update as
\* they were, and a request that changes activeTab leaves an update pending,
\* also when one was pending already; the update then writes nothing to
\* activeTab, leaves nothing pending, and shows the panel and selects the tab
\* of the value last written.
C18_Serialized ==
  [][/\ last'.op \in ActivationRequests =>
          /\ domTabs' = domTabs
          /\ domPanels' = domPanels
          /\ last'.raised =>
               (activeTab' = activeTab /\ changedProperties' = changedProperties)
          /\ activeTab' # activeTab => "activeTab" \in changedProperties'
          /\ changedProperties \subseteq changedProperties'
     /\ (last'.op = "performUpdate" /\ hasUpdated) =>
          (activeTab' = activeTab /\ changedProperties' = {})
     /\ (last'.op = "performUpdate" /\ count' >= 1) =>
          /\ Visible' = {activeTab'}
          /\ Selected' = {activeTab'}
          /\ Focusable' = {activeTab'}]_vars

C18_Witness ==
  /\ last.op = "nextTab"
  /\ last.raised
  /\ "activeTab" \in changedProperties
  /\ count = 3
  /\ activeTab = 2
  /\ Visible = {0}
  /\ Selected = {0}

\* C19: without a panel at the index _changeTab changes no tab and no
\* panel. Checked for every index outside the range on the rendered tabs
\* and panels of every state, and on the update that ran _changeTab without
\* a panel at activeTab.
C19_MissingPanelNoOp ==
  /\ \A a \in IndexInputs \cup AttrValues :
       ~Has(domPanels, a) =>
         _changeTab(domTabs, domPanels, a) = [tabs |-> domTabs, panels |-> domPanels]
  /\ ("_changeTab" \in last.called /\ ~Has(domPanels, activeTab)) =>
       /\ ~last.raised
       /\ Selected = {}
       /\ Visible = {}
       /\ Focusable = {}

C19_Witness ==
  /\ "_changeTab" \in last.called
  /\ hasUpdated
  /\ ~Has(domPanels, activeTab)
  /\ ~last.raised

\* C20: a resize stores the one measurement it made in overflow and leaves
\* activeTab, the tabs and panels of the document and the cached sequences
\* as they were; the update it asks for changes none of them either.
C20_ResizeFrame ==
  [][/\ last'.op = "resize" =>
          /\ Len(last'.measurements) = 1
          /\ overflow' = last'.measurements[1]
          /\ UNCHANGED <<activeTab, domTabs, domPanels, tabs,
                         prerenderedChildren, focused, subscribed>>
     /\ (last'.op = "performUpdate" /\ hasUpdated
           /\ "activeTab" \notin changedProperties) =>
          UNCHANGED <<activeTab, overflow, domTabs, domPanels, tabs,
                      prerenderedChildren>>]_vars

C20_Witness ==
  /\ last.op = "resize"
  /\ overflow
  /\ last.measurements = <<TRUE>>
  /\ "activeTab" \in changedProperties
  /\ activeTab = 1
  /\ Visible = {0}

====
